---------------------------- MODULE Spec2Model ----------------------------
(***************************************************************************)
(* Customer-Churn-Analysis: the synthetic data generator                   *)
(* (src/generate_data.py) and the analysis job (src/churn_analysis.py) as  *)
(* state machines.                                                         *)
(*                                                                         *)
(* Representation of the values pandas/Python hold:                        *)
(*   - a datetime / Timestamp is its day number counted from 2021-01-01    *)
(*     (day 0); datetime(y, m, d) computes it through the calendar;        *)
(*   - a cell of a date column is [type, v]: a Timestamp carries <<day>>,  *)
(*     NaT carries <<>>, a str carries the three numeric fields of the     *)
(*     text "MM/DD/YYYY" as <<MM, DD, YYYY>>;                              *)
(*   - a nullable scalar is <<>> (None / NaN) or <<x>>;                    *)
(*   - a plan name is the sequence of its characters;                      *)
(*   - money is in cents, a probability in hundredths, a login average in  *)
(*     tenths (the code rounds it to one decimal).                         *)
(***************************************************************************)
EXTENDS Integers, Sequences, FiniteSets, TLC

VARIABLES
    pc,          \* position of the driver
    n,           \* argument of generate_customers: rows of the generated table
    df,          \* generate_customers' table (the rows of the window)
    dirty_len,   \* len(dirty_df): row count of the whole dirty table
    touched,     \* sizes of the five index samples add_dirty_data drew
    dirty_df,    \* add_dirty_data's table (the rows of the window)
    clean_df,    \* clean_data(dirty_df)
    clean2_df,   \* clean_data(clean_df)
    run,         \* which run of the pipeline from the fixed seed this is
    tape,        \* what the seeded random sources yielded in the first run
    first,       \* the raw and cleaned tables the first run produced
    row,         \* argument of calculate_churn_probability
    churn_prob,  \* its result, in hundredths
    csv,         \* the table read_csv finds in data/customers_clean.csv
    ties,        \* the order this build's quicksort leaves equal keys in
    analysis_df, \* df of churn_analysis.main
    correlations,\* correlations of churn_analysis.main
    outputs      \* what the analysis job printed, drew and wrote

\* the variables of the generator and those of the analysis job
generator_vars == <<n, df, dirty_len, touched, dirty_df, clean_df, clean2_df,
                    run, tape, first, row, churn_prob>>

analysis_vars == <<csv, ties, analysis_df, correlations, outputs>>

vars == <<pc, generator_vars, analysis_vars>>

-----------------------------------------------------------------------------
(* Nullable values *)

None == <<>>

Some(x) == <<x>>

isnull(c) == c = None

-----------------------------------------------------------------------------
(* Text: str.lower() and str.title() *)

LowerLetters == <<"a","b","c","d","e","f","g","h","i","j","k","l","m",
                  "n","o","p","q","r","s","t","u","v","w","x","y","z">>

UpperLetters == <<"A","B","C","D","E","F","G","H","I","J","K","L","M",
                  "N","O","P","Q","R","S","T","U","V","W","X","Y","Z">>

IsLower(c) == \E i \in 1..Len(LowerLetters) : LowerLetters[i] = c

IsUpper(c) == \E i \in 1..Len(UpperLetters) : UpperLetters[i] = c

IsCased(c) == IsLower(c) \/ IsUpper(c)

ToLowerChar(c) ==
    IF IsUpper(c)
    THEN LowerLetters[CHOOSE i \in 1..Len(UpperLetters) : UpperLetters[i] = c]
    ELSE c

ToUpperChar(c) ==
    IF IsLower(c)
    THEN UpperLetters[CHOOSE i \in 1..Len(LowerLetters) : LowerLetters[i] = c]
    ELSE c

\* str.lower(): every cased character lower-cased
str_lower(s) == [i \in 1..Len(s) |-> ToLowerChar(s[i])]

\* str.title(): a cased character is upper-cased when it starts a word (the
\* character before it is not cased) and lower-cased otherwise
str_title(s) ==
    [i \in 1..Len(s) |->
        IF i > 1 /\ IsCased(s[i-1]) THEN ToLowerChar(s[i]) ELSE ToUpperChar(s[i])]

-----------------------------------------------------------------------------
(* Calendar: datetime, timedelta arithmetic, strftime, to_datetime *)

EpochYear == 2021

IsLeap(y) == (y % 4 = 0 /\ y % 100 # 0) \/ y % 400 = 0

DaysInMonth(y, m) ==
    IF m = 2 THEN (IF IsLeap(y) THEN 29 ELSE 28)
    ELSE IF m \in {4, 6, 9, 11} THEN 30 ELSE 31

DaysInYear(y) == IF IsLeap(y) THEN 366 ELSE 365

RECURSIVE DaysBeforeYear(_)
DaysBeforeYear(y) ==
    IF y <= EpochYear THEN 0 ELSE DaysBeforeYear(y - 1) + DaysInYear(y - 1)

RECURSIVE DaysBeforeMonth(_, _)
DaysBeforeMonth(y, m) ==
    IF m <= 1 THEN 0 ELSE DaysBeforeMonth(y, m - 1) + DaysInMonth(y, m - 1)

\* datetime(y, m, d) as a day number
datetime(y, m, d) == DaysBeforeYear(y) + DaysBeforeMonth(y, m) + (d - 1)

RECURSIVE YearOf(_, _)
YearOf(day, y) ==
    IF day < DaysBeforeYear(y + 1) THEN y ELSE YearOf(day, y + 1)

RECURSIVE MonthOf(_, _, _)
MonthOf(day, y, m) ==
    IF day < DaysBeforeYear(y) + DaysBeforeMonth(y, m + 1) THEN m
    ELSE MonthOf(day, y, m + 1)

\* d.strftime("%m/%d/%Y"): the fields of the text MM/DD/YYYY
strftime(day) ==
    LET y == YearOf(day, EpochYear)
        m == MonthOf(day, y, 1)
    IN  <<m, day - DaysBeforeYear(y) - DaysBeforeMonth(y, m) + 1, y>>

Timestamp(day) == [type |-> "Timestamp", v |-> <<day>>]

NaT == [type |-> "NaT", v |-> <<>>]

Str(text) == [type |-> "str", v |-> text]

notnull(c) == c.type # "NaT"

\* whether a text MM/DD/YYYY names a day of the calendar
IsDateText(t) ==
    /\ Len(t) = 3
    /\ t[3] >= EpochYear
    /\ t[1] \in 1..12
    /\ t[2] \in 1..DaysInMonth(t[3], t[1])

\* pd.to_datetime of one cell: a Timestamp is kept, a text is parsed month
\* first, a missing value is NaT. An unparsable text is NaT under
\* errors="coerce" (the caller then passes coerce = TRUE).
to_datetime(c, coerce) ==
    IF c.type = "str"
    THEN IF IsDateText(c.v) THEN Timestamp(datetime(c.v[3], c.v[1], c.v[2]))
         ELSE NaT
    ELSE c

\* whether pd.to_datetime of the cell raises (an unparsable text, no coerce)
to_datetime_raises(c, coerce) ==
    c.type = "str" /\ ~IsDateText(c.v) /\ ~coerce

-----------------------------------------------------------------------------
(* Reference tables *)

RANDOM_SEED == 42

Basic == <<"B","a","s","i","c">>

Standard == <<"S","t","a","n","d","a","r","d">>

Premium == <<"P","r","e","m","i","u","m">>

\* SUBSCRIPTION_PLANS[name]["price"], in cents
SUBSCRIPTION_PLANS == (Basic :> 999) @@ (Standard :> 1599) @@ (Premium :> 2299)

REGIONS == <<"Northeast", "Southeast", "Midwest", "Southwest", "West",
             "International">>

PAYMENT_METHODS == <<"Credit Card", "Debit Card", "PayPal", "Bank Transfer">>

CANCELLATION_REASONS == <<"Too Expensive", "Not Enough Content",
                          "Technical Issues", "Switching to Competitor",
                          "No Longer Needed", "Found Better Alternative">>

\* AGE_GROUPS[group] = <<youngest, oldest>>
AGE_GROUPS == [g \in {"18-24", "25-34", "35-44", "45-54", "55-64", "65+"} |->
                 CASE g = "18-24" -> <<18, 24>>
                   [] g = "25-34" -> <<25, 34>>
                   [] g = "35-44" -> <<35, 44>>
                   [] g = "45-54" -> <<45, 54>>
                   [] g = "55-64" -> <<55, 64>>
                   [] g = "65+"   -> <<65, 80>>]

Range(s) == {s[i] : i \in 1..Len(s)}

Min(a, b) == IF a <= b THEN a ELSE b

Max(a, b) == IF a >= b THEN a ELSE b

-----------------------------------------------------------------------------
(* Helper functions *)

\* random_date(start, end) with random_days the value random.randint drew
random_date(start, end, random_days) == start + random_days

\* random.randint(0, delta.days) raises ValueError on an empty range
random_date_raises(start, end) == end - start < 0

\* CapProbability without the cap
CapProbability_uncapped(prob) == prob

\* min(prob, 0.95)
CapProbability(prob) == Min(prob, 95)

\* LoginIncrement with the two weights exchanged
LoginIncrement_swapped(avg_monthly_logins) ==
    IF avg_monthly_logins < 30 THEN 15
    ELSE IF avg_monthly_logins < 80 THEN 35 ELSE 0

\* +0.35 under 3 logins a month, +0.15 under 8
LoginIncrement(avg_monthly_logins) ==
    IF avg_monthly_logins < 30 THEN 35
    ELSE IF avg_monthly_logins < 80 THEN 15 ELSE 0

\* +0.08 Premium, +0.04 Standard
PlanIncrement(plan_name) ==
    IF plan_name = Premium THEN 8
    ELSE IF plan_name = Standard THEN 4 ELSE 0

\* +0.20 under 6 months of tenure, +0.08 under 12
TenureIncrement(tenure_months) ==
    IF tenure_months < 6 THEN 20
    ELSE IF tenure_months < 12 THEN 8 ELSE 0

\* +0.12 with any billing issue
BillingIncrement(billing_issues_count) ==
    IF billing_issues_count > 0 THEN 12 ELSE 0

\* +0.06 for the two youngest age groups
AgeIncrement(age_group) ==
    IF age_group \in {"18-24", "25-34"} THEN 6 ELSE 0

\* +0.10 for International
RegionIncrement(region) ==
    IF region = Some("International") THEN 10 ELSE 0

\* calculate_churn_probability(row), in hundredths
calculate_churn_probability(r) ==
    CapProbability(10 + LoginIncrement(r.avg_monthly_logins)
                      + PlanIncrement(r.plan_name)
                      + TenureIncrement(r.tenure_months)
                      + BillingIncrement(r.billing_issues_count)
                      + AgeIncrement(r.age_group)
                      + RegionIncrement(r.region))

-----------------------------------------------------------------------------
(* generate_customers *)

join_date_start == datetime(2021, 1, 1)

\* join_date_end ten days before the cutoff
join_date_end_late == datetime(2024, 9, 20)

join_date_end == datetime(2024, 6, 30)

\* datetime(2024, 9, 30), the analysis cutoff
cutoff_date == datetime(2024, 9, 30)

\* TenureMonths with the months rounded up
TenureMonths_ceil(join_date) == (cutoff_date - join_date + 29) \div 30

\* tenure_months = (datetime(2024, 9, 30) - join_date).days // 30
TenureMonths(join_date) == (cutoff_date - join_date) \div 30

\* the row dictionary as it is when calculate_churn_probability reads it;
\* d holds what the random sources drew for this record
BaseRow(i, d) ==
    LET join_date == random_date(join_date_start, join_date_end, d.join_days)
    IN  [customer_id          |-> i,
         age                  |-> d.age,
         age_group            |-> d.age_group,
         region               |-> Some(d.region),
         plan_name            |-> d.plan_name,
         plan_price           |-> Some(SUBSCRIPTION_PLANS[d.plan_name]),
         payment_method       |-> d.payment_method,
         join_date            |-> Timestamp(join_date),
         tenure_months        |-> TenureMonths(join_date),
         avg_monthly_logins   |-> Max(0, d.logins),
         avg_session_minutes  |-> Max(0, d.session),
         support_tickets      |-> d.tickets,
         billing_issues_count |-> d.billing]

\* churned = random.random() < churn_prob
Churned(base, d) == d.u < calculate_churn_probability(base)

\* CancelStart with the 30 days subtracted
CancelStart_before(base) == base.join_date.v[1] - 30

\* the bounds of the cancellation window random_date is called with
CancelStart(base) == base.join_date.v[1] + 30

CancelEnd(base) ==
    Min(base.join_date.v[1] + base.tenure_months * 30, cutoff_date)

\* the churn decision: the last four columns of the record
ChurnColumns(base, d) ==
    LET join_date == base.join_date.v[1]
    IN  IF Churned(base, d)
        THEN LET cancel_date == random_date(CancelStart(base), CancelEnd(base),
                                            d.cancel_days)
             IN  [is_churned             |-> 1,
                  cancellation_date      |-> Timestamp(cancel_date),
                  cancellation_reason    |-> Some(d.reason),
                  customer_lifetime_days |-> cancel_date - join_date]
        ELSE [is_churned             |-> 0,
              cancellation_date      |-> NaT,
              cancellation_reason    |-> None,
              customer_lifetime_days |-> cutoff_date - join_date]

\* one iteration of the loop: record i
NewRecord(i, d) == BaseRow(i, d) @@ ChurnColumns(BaseRow(i, d), d)

\* whether iteration i raises (an empty cancellation window)
NewRecordRaises(i, d) ==
    /\ Churned(BaseRow(i, d), d)
    /\ random_date_raises(CancelStart(BaseRow(i, d)), CancelEnd(BaseRow(i, d)))

\* what random.randint(0, hi) is taken to draw: both ends and the middle
RandintSamples(hi) == {k \in {0, hi \div 2, hi} : 0 <= k /\ k <= hi}

-----------------------------------------------------------------------------
(* Tables                                                                  *)
(*                                                                         *)
(* A DataFrame is the sequence of its rows in order, each [index, row]:    *)
(* the row's index label and the record of its columns.                    *)
(*                                                                         *)
(* The pipeline's tables have n and n + 200 rows. Every operation on them  *)
(* but the sampling acts on each row by itself or on the rows that are     *)
(* equal in every column, so the model carries the rows of a window (some  *)
(* customers, numbered from 1, and the duplicates appended of them) and    *)
(* the row count of the whole table; an index sample is its size and the   *)
(* part of it that falls in the window.                                    *)

Entry(index, r) == [index |-> index, row |-> r]

Labels(t) == {t[k].index : k \in 1..Len(t)}

-----------------------------------------------------------------------------
(* add_dirty_data *)

\* size=200 of the duplicate sample
DUP_SIZE == 200

\* SampleSize taken of the row count before the duplicates were appended
SampleSize_before(len, pct) == ((len - DUP_SIZE) * pct) \div 100

\* int(len(dirty_df) * fraction), the fraction in hundredths
SampleSize(len, pct) == (len * pct) \div 100

\* rng.choice(index, size, replace=False) raises ValueError when it is asked
\* for more than the population holds
choice_raises(population, size) == size > population

\* The parts of the window that a sample of `size` distinct labels out of
\* `population` can hold, the window holding the labels `window`
ChoiceInWindow(window, population, size) ==
    {S \in SUBSET window :
        /\ Cardinality(S) <= size
        /\ size - Cardinality(S) <= population - Cardinality(window)}

\* The duplicates of window rows that the window has room for
DuplicatesInWindow(window, population, size, room) ==
    {S \in ChoiceInWindow(window, population, size) : Cardinality(S) <= room}

\* The orders in which distinct labels can be drawn: the sequences without
\* repetition over a set
RECURSIVE Orderings(_)
Orderings(S) ==
    IF S = {} THEN {<<>>}
    ELSE UNION {{<<x>> \o o : o \in Orderings(S \ {x})} : x \in S}

\* pd.concat([dirty_df, df.loc[dup_indices]], ignore_index=True): the copies
\* are appended in the order drawn and the index is renumbered; `first_label`
\* is the label the first copy of the window gets
AppendDuplicates(t, dup_indices, first_label) ==
    t \o [j \in 1..Len(dup_indices) |->
            Entry(first_label + j - 1,
                  (CHOOSE e \in Range(t) : e.index = dup_indices[j]).row)]

\* dirty_df.loc[null_price_idx, "plan_price"] = None
NullPlanPrice(r) == [r EXCEPT !.plan_price = None]

\* dirty_df.loc[null_region_idx, "region"] = None
NullRegion(r) == [r EXCEPT !.region = None]

\* dirty_df.loc[inconsistent_idx, "plan_name"] = ... .str.lower()
LowerPlanName(r) == [r EXCEPT !.plan_name = str_lower(r.plan_name)]

\* d.strftime("%m/%d/%Y") if pd.notnull(d) else d
ReformatJoinDate(r) ==
    [r EXCEPT !.join_date =
        IF notnull(r.join_date) THEN Str(strftime(r.join_date.v[1]))
        ELSE r.join_date]

-----------------------------------------------------------------------------
(* clean_data *)

\* Step 1, df.drop_duplicates(): a row is dropped when an earlier row is equal
\* to it in every column; the rows kept keep their index labels
RECURSIVE drop_duplicates_from(_, _)
drop_duplicates_from(t, k) ==
    IF k > Len(t) THEN <<>>
    ELSE IF \E j \in 1..(k - 1) : t[j].row = t[k].row
         THEN drop_duplicates_from(t, k + 1)
         ELSE <<t[k]>> \o drop_duplicates_from(t, k + 1)

drop_duplicates(t) == drop_duplicates_from(t, 1)

\* Step 2, df["plan_name"].str.title()
TitlePlanName(r) == [r EXCEPT !.plan_name = str_title(r.plan_name)]

\* Step 3, pd.to_datetime on join_date (format="mixed") and on
\* cancellation_date (errors="coerce")
ParseDates(r) ==
    [r EXCEPT !.join_date = to_datetime(r.join_date, FALSE),
              !.cancellation_date = to_datetime(r.cancellation_date, TRUE)]

\* Step 3 raises when a join_date is a text that is no date
ParseDatesRaises(t) ==
    \E k \in 1..Len(t) : to_datetime_raises(t[k].row.join_date, FALSE)

\* price_lookup.get with a price of 0 for a name the table does not hold
price_lookup_get_zero(plan_name, default) ==
    IF plan_name \in DOMAIN SUBSCRIPTION_PLANS
    THEN Some(SUBSCRIPTION_PLANS[plan_name]) ELSE Some(0)

\* price_lookup.get(plan_name, default)
price_lookup_get(plan_name, default) ==
    IF plan_name \in DOMAIN SUBSCRIPTION_PLANS
    THEN Some(SUBSCRIPTION_PLANS[plan_name]) ELSE default

\* FillPlanPrice that fills nothing
FillPlanPrice_skipped(r) == r

\* Step 4, the lambda applied to every row
FillPlanPrice(r) ==
    [r EXCEPT !.plan_price =
        IF isnull(r.plan_price) THEN price_lookup_get(r.plan_name, r.plan_price)
        ELSE r.plan_price]

\* Step 5, df["region"].fillna("Unknown")
FillRegion(r) ==
    [r EXCEPT !.region = IF isnull(r.region) THEN Some("Unknown") ELSE r.region]

\* df["cancellation_date"] < df["join_date"]: a comparison with NaT is False
DateBefore(a, b) ==
    /\ a.type = "Timestamp"
    /\ b.type = "Timestamp"
    /\ a.v[1] < b.v[1]

\* Step 6, the index of invalid_dates
InvalidDates(t) ==
    {t[k].index : k \in {j \in 1..Len(t) :
        /\ notnull(t[j].row.cancellation_date)
        /\ DateBefore(t[j].row.cancellation_date, t[j].row.join_date)}}

\* RepairInvalid that clears the date alone
RepairInvalid_date_only(r) == [r EXCEPT !.cancellation_date = NaT]

\* Step 6, the three assignments through df.loc[invalid_dates.index, ...]
RepairInvalid(r) ==
    [r EXCEPT !.cancellation_date = NaT,
              !.is_churned = 0,
              !.cancellation_reason = None]

ValidateDates(t) ==
    [k \in 1..Len(t) |->
        IF t[k].index \in InvalidDates(t)
        THEN Entry(t[k].index, RepairInvalid(t[k].row))
        ELSE t[k]]

\* Steps 2 to 5 on one row
Normalize(r) == FillRegion(FillPlanPrice(ParseDates(TitlePlanName(r))))

\* Steps 2 to 5 on the whole table
NormalizeAll(t) == [k \in 1..Len(t) |-> Entry(t[k].index, Normalize(t[k].row))]

\* clean_data(dirty_df), when it does not raise
clean_data(t) == ValidateDates(NormalizeAll(drop_duplicates(t)))

clean_data_raises(t) == ParseDatesRaises(drop_duplicates(t))

-----------------------------------------------------------------------------
(* churn_analysis.py: the table, load_data                                 *)
(*                                                                         *)
(* The table of the analysis job is [columns, rows]: the column names in   *)
(* order and the rows, each the record of its cells under those names.     *)

\* the columns generate_data.py writes to data/customers_clean.csv
CSV_COLUMNS ==
    <<"customer_id", "age", "age_group", "region", "plan_name", "plan_price",
      "payment_method", "join_date", "tenure_months", "avg_monthly_logins",
      "avg_session_minutes", "support_tickets", "billing_issues_count",
      "is_churned", "cancellation_date", "cancellation_reason",
      "customer_lifetime_days">>

\* pd.read_csv(path, parse_dates=[...])
parse_dates == <<"join_date", "cancellation_date">>

required_cols ==
    <<"customer_id", "is_churned", "plan_name", "plan_price",
      "region", "age_group", "tenure_months",
      "avg_monthly_logins", "avg_session_minutes",
      "support_tickets", "billing_issues_count">>

\* df.columns as a set
Columns(t) == Range(t.columns)

\* the table with the columns of names dropped
WithoutColumns(t, names) ==
    LET keep == SelectSeq(t.columns, LAMBDA c : c \notin names)
    IN  [columns |-> keep,
         rows    |-> [k \in 1..Len(t.rows) |->
                         [c \in Range(keep) |-> t.rows[k][c]]]]

\* df[name] = cells: the column appended, or overwritten where it stands
WithColumn(t, name, cells) ==
    [columns |-> IF name \in Columns(t) THEN t.columns
                 ELSE Append(t.columns, name),
     rows    |-> [k \in 1..Len(t.rows) |->
                     [c \in Columns(t) \cup {name} |->
                         IF c = name THEN cells[k] ELSE t.rows[k][c]]]]

\* read_csv raises when a column it is to parse as a date is not in the file
read_csv_raises(file) == \E c \in Range(parse_dates) : c \notin Columns(file)

\* missing_cols naming the first absent column only
missing_cols_first(t) ==
    LET all == SelectSeq(required_cols, LAMBDA col : col \notin Columns(t))
    IN  IF all = <<>> THEN <<>> ELSE <<all[1]>>

\* missing_cols = [col for col in required_cols if col not in df.columns]
missing_cols(t) == SelectSeq(required_cols, LAMBDA col : col \notin Columns(t))

\* df[name] as the sequence of its numbers (plan_price is held as a
\* nullable scalar)
NumericColumn(t, name) ==
    [k \in 1..Len(t.rows) |->
        IF name = "plan_price" THEN t.rows[k][name][1] ELSE t.rows[k][name]]

RECURSIVE SumSeq(_)
SumSeq(s) == IF s = <<>> THEN 0 ELSE s[1] + SumSeq(Tail(s))

\* df["is_churned"].sum() over the rows of a group
ChurnedIn(t, group) ==
    SumSeq([k \in 1..Len(group) |-> t.rows[group[k]].is_churned])

-----------------------------------------------------------------------------
(* Pearson correlation and sort_values                                     *)
(*                                                                         *)
(* A correlation r is [nan, sign, num, den]: NaN, or the sign of r and     *)
(* r^2 = num / den. r is unchanged by a shift and a positive scaling of a  *)
(* column, so each column is first reduced to (x - min) / gcd, which keeps *)
(* the integers small. A mean is [nan, sign, num, den] likewise, the value *)
(* itself being sign * num / den.                                          *)

NaN == [nan |-> TRUE, sign |-> 0, num |-> 0, den |-> 1]

Ratio(sign, num, den) == [nan |-> FALSE, sign |-> sign, num |-> num, den |-> den]

RECURSIVE GCD(_, _)
GCD(a, b) == IF b = 0 THEN a ELSE GCD(b, a % b)

RECURSIVE MinSeq(_)
MinSeq(s) == IF Len(s) = 1 THEN s[1] ELSE Min(s[1], MinSeq(Tail(s)))

RECURSIVE MaxSeq(_)
MaxSeq(s) == IF Len(s) = 1 THEN s[1] ELSE Max(s[1], MaxSeq(Tail(s)))

RECURSIVE GCDSeq(_)
GCDSeq(s) == IF s = <<>> THEN 0 ELSE GCD(s[1], GCDSeq(Tail(s)))

\* the column shifted to start at 0 and divided by the gcd of its values
Reduced(x) ==
    LET lowest  == MinSeq(x)
        shifted == [k \in 1..Len(x) |-> x[k] - lowest]
        g       == GCDSeq(shifted)
    IN  IF g = 0 THEN shifted ELSE [k \in 1..Len(x) |-> shifted[k] \div g]

\* N * sum(x*y) - sum(x) * sum(y)
Covariance(x, y) ==
    Len(x) * SumSeq([k \in 1..Len(x) |-> x[k] * y[k]]) - SumSeq(x) * SumSeq(y)

Sign(v) == IF v > 0 THEN 1 ELSE IF v < 0 THEN -1 ELSE 0

\* Series.corr: Pearson's r of two columns, NaN when one of them is constant
corr(x0, y0) ==
    LET x   == Reduced(x0)
        y   == Reduced(y0)
        sxx == Covariance(x, x)
        syy == Covariance(y, y)
        sxy == Covariance(x, y)
    IN  IF sxx = 0 \/ syy = 0 THEN NaN
        ELSE Ratio(Sign(sxy), sxy * sxy, sxx * syy)

\* Series.abs() on one value
abs(r) == IF r.nan THEN NaN ELSE Ratio(Sign(r.num), r.num, r.den)

\* a < b and a = b for two non-negative values that are not NaN
Less(a, b) == a.num * b.den < b.num * a.den

Same(a, b) == a.num * b.den = b.num * a.den

\* r > 0: False for NaN
Positive(r) == ~r.nan /\ r.sign > 0

\* the orders a quicksort may leave equal keys in; the model holds the two
\* ends: the input order, and its reverse
TieOrders == {"input", "reversed"}

\* Series.sort_values(ascending=...), kind="quicksort": the positions of the
\* keys in sorted order. NaN keys come last, in input order; equal keys in
\* the order the sort of the build leaves them in.
sort_values(keys, ascending, tie) ==
    LET N == Len(keys)
        Before(i, j) ==
            IF keys[i].nan \/ keys[j].nan
            THEN (~keys[i].nan /\ keys[j].nan)
                     \/ (keys[i].nan /\ keys[j].nan /\ i < j)
            ELSE IF Same(keys[i], keys[j])
            THEN (IF tie = "input" THEN i < j ELSE i > j)
            ELSE IF ascending THEN Less(keys[i], keys[j])
            ELSE Less(keys[j], keys[i])
        Rank(i) == 1 + Cardinality({j \in 1..N : Before(j, i)})
    IN  [k \in 1..N |-> CHOOSE i \in 1..N : Rank(i) = k]

\* Series.head(n)
head(s, m) == SubSeq(s, 1, Min(m, Len(s)))

-----------------------------------------------------------------------------
(* correlation_analysis *)

numeric_cols ==
    <<"plan_price", "tenure_months", "avg_monthly_logins",
      "avg_session_minutes", "support_tickets", "billing_issues_count",
      "customer_lifetime_days">>

\* df[numeric_cols + ["is_churned"]].corr()["is_churned"].drop("is_churned"):
\* the Series of the seven features, each [feature, r]
Correlations(t) ==
    [i \in 1..Len(numeric_cols) |->
        [feature |-> numeric_cols[i],
         r       |-> corr(NumericColumn(t, numeric_cols[i]),
                          NumericColumn(t, "is_churned"))]]

\* correlations.abs().sort_values(ascending=False), as positions
correlations_sorted(cs, tie) ==
    sort_values([i \in 1..Len(cs) |-> abs(cs[i].r)], FALSE, tie)

\* the lines printed under "Correlation with Churn": feature, arrow, value
PrintedRanking(cs, tie) ==
    LET order == correlations_sorted(cs, tie)
    IN  [k \in 1..Len(order) |->
            [feature   |-> cs[order[k]].feature,
             direction |-> IF Positive(cs[order[k]].r) THEN "up arrow"
                           ELSE "down arrow",
             r         |-> cs[order[k]].r]]

\* the lines printed under "Top 3 Churn Factors": rank, feature, direction
PrintedTop3(cs, tie) ==
    LET order == head(correlations_sorted(cs, tie), 3)
    IN  [k \in 1..Len(order) |->
            [rank      |-> k,
             feature   |-> cs[order[k]].feature,
             direction |-> IF Positive(cs[order[k]].r) THEN "up" ELSE "down"]]

-----------------------------------------------------------------------------
(* groupby, pd.cut and the five charts                                     *)
(*                                                                         *)
(* A chart is the aggregates it plots; a group is [key, churned, count],   *)
(* its churn rate being churned / count.                                   *)

\* the row positions, in order
RowPositions(t) == [k \in 1..Len(t.rows) |-> k]

\* df.groupby(col)["is_churned"].agg(["mean", "count"]): the groups of the
\* keys that occur, in the order of keys (the sorted order of the values of
\* the column, or the order of its categories); a null key makes no group
groupby(t, col, keys) ==
    LET members(key) ==
            SelectSeq(RowPositions(t), LAMBDA k : t.rows[k][col] = Some(key))
        group(key) == [key     |-> key,
                       churned |-> ChurnedIn(t, members(key)),
                       count   |-> Len(members(key))]
    IN  SelectSeq([i \in 1..Len(keys) |-> group(keys[i])],
                  LAMBDA g : g.count > 0)

\* the mean of is_churned in a group
GroupMean(g) == Ratio(Sign(g.churned), g.churned, g.count)

\* pd.cut(x, bins=edges): the interval (edges[k], edges[k+1]] that holds x,
\* null when none does
cut(x, edges) ==
    LET hits == {k \in 1..(Len(edges) - 1) : edges[k] < x /\ x <= edges[k + 1]}
    IN  IF hits = {} THEN None ELSE Some(CHOOSE k \in hits : TRUE)

\* bins=[0, 3, 8, 15, 100], in tenths of a login
login_edges == <<0, 30, 80, 150, 1000>>

login_labels == <<"Very Low", "Low", "Medium", "High">>

\* bins=[0, 3, 6, 12, 24, 100]
tenure_edges == <<0, 3, 6, 12, 24, 100>>

tenure_labels == <<"0-3 months", "3-6 months", "6-12 months", "1-2 years",
                   "2+ years">>

billing_labels == <<"No Issues", "1 Issue", "2+ Issues">>

\* pd.cut(..., labels=labels) on one value
cut_labelled(x, edges, labels) ==
    IF cut(x, edges) = None THEN None ELSE Some(labels[cut(x, edges)[1]])

\* lambda x: "No Issues" if x == 0 else "1 Issue" if x == 1 else "2+ Issues"
billing_tier(x) ==
    IF x = 0 THEN "No Issues" ELSE IF x = 1 THEN "1 Issue" ELSE "2+ Issues"

\* .reindex(labels): a group for every label, null for one that has no row
reindex(groups, labels) ==
    [i \in 1..Len(labels) |->
        LET found == SelectSeq(groups, LAMBDA g : g.key = labels[i])
        IN  [key |-> labels[i],
             group |-> IF found = <<>> THEN None ELSE Some(found[1])]]

\* plan_name and region values in sorted order, as groupby orders its keys
SortedPlans == <<Basic, Premium, Standard>>

SortedRegions == <<"International", "Midwest", "Northeast", "Southeast",
                   "Southwest", "Unknown", "West">>

\* a nullable cell wrapped once more for groupby, which compares with Some
Keyed(t, col) ==
    [columns |-> t.columns,
     rows    |-> [k \in 1..Len(t.rows) |->
                     [t.rows[k] EXCEPT ![col] = Some(t.rows[k][col])]]]

\* plot_correlation_heatmap: df[numeric_cols].corr()
heatmap_cols ==
    <<"is_churned", "plan_price", "tenure_months", "avg_monthly_logins",
      "avg_session_minutes", "support_tickets", "billing_issues_count">>

plot_correlation_heatmap(t) ==
    LET column == [i \in 1..Len(heatmap_cols) |->
                      NumericColumn(t, heatmap_cols[i])]
    IN  [df      |-> t,
         content |-> [i \in 1..Len(heatmap_cols) |->
                         [j \in 1..Len(heatmap_cols) |->
                             corr(column[i], column[j])]]]

\* plot_top3_factors: the three tier columns written to df, and the churn
\* rate of each tier read back from them
plot_top3_factors(t) ==
    LET t1 == WithColumn(t, "login_tier",
                  [k \in 1..Len(t.rows) |->
                      cut_labelled(t.rows[k].avg_monthly_logins,
                                   login_edges, login_labels)])
        t2 == WithColumn(t1, "tenure_tier",
                  [k \in 1..Len(t.rows) |->
                      cut_labelled(t1.rows[k].tenure_months,
                                   tenure_edges, tenure_labels)])
        t3 == WithColumn(t2, "billing_tier",
                  [k \in 1..Len(t.rows) |->
                      Some(billing_tier(t2.rows[k].billing_issues_count))])
    IN  [df      |-> t3,
         content |-> [login_churn   |-> groupby(t1, "login_tier", login_labels),
                      tenure_churn  |-> groupby(t2, "tenure_tier", tenure_labels),
                      billing_churn |-> reindex(groupby(t3, "billing_tier",
                                                        billing_labels),
                                                billing_labels)]]

\* plot_churn_by_plan: mean and count of is_churned by plan_name
plot_churn_by_plan(t) ==
    [df      |-> t,
     content |-> groupby(Keyed(t, "plan_name"), "plan_name", SortedPlans)]

\* the groups of df.groupby("region") ordered by sort_values on their mean
region_stats(t, ascending, tie) ==
    LET groups == groupby(t, "region", SortedRegions)
        order  == sort_values([i \in 1..Len(groups) |-> GroupMean(groups[i])],
                              ascending, tie)
    IN  [k \in 1..Len(order) |-> groups[order[k]]]

\* plot_churn_by_region: mean of is_churned by region, ascending
plot_churn_by_region(t, tie) ==
    [df |-> t, content |-> region_stats(t, TRUE, tie)]

\* pd.cut(x, bins=10) on one value of a column spanning [lo, hi]: the
\* number of the equal-width interval that holds it. A column of one value
\* is spread 0.1% to both sides before it is cut, its value the edge that
\* closes the fifth interval.
login_bin(x, lo, hi) ==
    IF lo = hi THEN 5
    ELSE IF x = lo THEN 1
    ELSE (10 * (x - lo) + (hi - lo) - 1) \div (hi - lo)

\* plot_churn_by_engagement taking the login_tier column for its bins when
\* df has one
plot_churn_by_engagement_reusing(t) ==
    LET logins == NumericColumn(t, "avg_monthly_logins")
        lo     == MinSeq(logins)
        hi     == MaxSeq(logins)
        t1     == WithColumn(t, "login_bin",
                      [k \in 1..Len(t.rows) |->
                          IF "login_tier" \in Columns(t)
                          THEN (IF t.rows[k].login_tier = None THEN Some(1)
                                ELSE Some(2))
                          ELSE Some(login_bin(logins[k], lo, hi))])
    IN  [df      |-> t1,
         content |-> [lo   |-> lo,
                      hi   |-> hi,
                      bins |-> groupby(t1, "login_bin",
                                       [b \in 1..10 |-> b])]]

\* plot_churn_by_engagement: the login_bin column written to df, and mean
\* and count of is_churned by bin read back from it; the midpoints and the
\* trend line are computed from these
plot_churn_by_engagement(t) ==
    LET logins == NumericColumn(t, "avg_monthly_logins")
        lo     == MinSeq(logins)
        hi     == MaxSeq(logins)
        t1     == WithColumn(t, "login_bin",
                      [k \in 1..Len(t.rows) |->
                          Some(login_bin(logins[k], lo, hi))])
    IN  [df      |-> t1,
         content |-> [lo   |-> lo,
                      hi   |-> hi,
                      bins |-> groupby(t1, "login_bin",
                                       [b \in 1..10 |-> b])]]

\* the charts, in the order main draws them
CHARTS == <<"correlation_heatmap", "top3_churn_factors", "churn_by_plan",
            "churn_by_region", "churn_by_engagement">>

\* the plot function that draws chart c, applied to df
plot(c, t, tie) ==
    CASE c = "correlation_heatmap" -> plot_correlation_heatmap(t)
      [] c = "top3_churn_factors"  -> plot_top3_factors(t)
      [] c = "churn_by_plan"       -> plot_churn_by_plan(t)
      [] c = "churn_by_region"     -> plot_churn_by_region(t, tie)
      [] c = "churn_by_engagement" -> plot_churn_by_engagement(t)

-----------------------------------------------------------------------------
(* print_summary and generate_text_report *)

\* whether a cell of column col is null
isnull_cell(col, cell) ==
    CASE col \in {"join_date", "cancellation_date"} -> cell = NaT
      [] col \in {"region", "plan_price", "cancellation_reason"} -> cell = None
      [] OTHER -> FALSE

\* df.isnull().sum()[df.isnull().sum() > 0]
null_counts(t) ==
    SelectSeq([i \in 1..Len(t.columns) |->
                  [column |-> t.columns[i],
                   nulls  |-> Len(SelectSeq(RowPositions(t),
                                  LAMBDA k : isnull_cell(t.columns[i],
                                                         t.rows[k][t.columns[i]])))]],
              LAMBDA e : e.nulls > 0)

\* what print_summary prints
print_summary(t) ==
    [total    |-> Len(t.rows),
     churned  |-> ChurnedIn(t, RowPositions(t)),
     active   |-> Len(t.rows) - ChurnedIn(t, RowPositions(t)),
     tenure   |-> SumSeq(NumericColumn(t, "tenure_months")),
     logins   |-> SumSeq(NumericColumn(t, "avg_monthly_logins")),
     session  |-> SumSeq(NumericColumn(t, "avg_session_minutes")),
     plans    |-> {<<g.key, g.count>> :
                     g \in Range(groupby(Keyed(t, "plan_name"), "plan_name",
                                         SortedPlans))},
     nulls    |-> null_counts(t)]

\* df[df["is_churned"] == 1]["customer_lifetime_days"].mean(): NaN when no
\* row is churned
avg_lifetime(t) ==
    LET churned == SelectSeq(RowPositions(t), LAMBDA k : t.rows[k].is_churned = 1)
        days    == SumSeq([i \in 1..Len(churned) |->
                              t.rows[churned[i]].customer_lifetime_days])
    IN  IF churned = <<>> THEN NaN ELSE Ratio(Sign(days), days, Len(churned))

\* the lines under "TOP 3 CHURN DRIVERS": rank, feature, r, direction
ReportTop3(cs, tie) ==
    LET top3 == head(correlations_sorted(cs, tie), 3)
    IN  [k \in 1..Len(top3) |->
            [rank      |-> k,
             feature   |-> cs[top3[k]].feature,
             r         |-> cs[top3[k]].r,
             direction |-> IF Positive(cs[top3[k]].r) THEN "POSITIVE"
                           ELSE "NEGATIVE"]]

\* the report generate_text_report writes, all but the day it is written on
generate_text_report(t, cs, tie) ==
    [total        |-> Len(t.rows),
     churned      |-> ChurnedIn(t, RowPositions(t)),
     avg_lifetime |-> avg_lifetime(t),
     top3         |-> ReportTop3(cs, tie),
     by_plan      |-> groupby(Keyed(t, "plan_name"), "plan_name", SortedPlans),
     by_region    |-> region_stats(t, FALSE, tie)]

-----------------------------------------------------------------------------
(* Bounds and the sets the inputs are drawn from *)

\* tenure_months of a row handed to calculate_churn_probability: 0..MaxTenure
MaxTenure == 13

\* billing_issues_count of such a row: 0..MaxBilling
MaxBilling == 2

\* avg_monthly_logins of such a row, in tenths: around both thresholds
LoginSamples == {0, 29, 30, 79, 80, 120}

PlanNames == {Basic, Standard, Premium}

\* the rows calculate_churn_probability is applied to
ProbRows ==
    [avg_monthly_logins   : LoginSamples,
     plan_name            : PlanNames,
     tenure_months        : 0..MaxTenure,
     billing_issues_count : 0..MaxBilling,
     age_group            : DOMAIN AGE_GROUPS,
     region               : {Some(g) : g \in Range(REGIONS)}]

\* what the random sources may draw for one record, all but cancel_days,
\* which random.randint draws from the record's own cancellation window
GenDraws ==
    [age_group      : {"18-24", "45-54"},
     age            : {0},
     region         : {"West"},
     plan_name      : {Basic, Premium},
     payment_method : {"PayPal"},
     join_days      : 0..(join_date_end - join_date_start),
     logins         : {-20, 120},
     session        : {450},
     tickets        : {0},
     billing        : {0},
     u              : {5, 50, 97},
     reason         : {"Too Expensive"}]

\* rows the window holds at most
MaxRows == 2

\* the arguments generate_customers is called with
NValues == {100, 500}

\* what the random sources may draw for one record of the pipeline's table:
\* a customer of each plan, the one on Standard staying, the others churning
ChurnedDraw ==
    [age_group      |-> "25-34",
     age            |-> 0,
     region         |-> "West",
     plan_name      |-> Basic,
     payment_method |-> "PayPal",
     join_days      |-> 59,
     logins         |-> 120,
     session        |-> 450,
     tickets        |-> 0,
     billing        |-> 0,
     u              |-> 5,
     reason         |-> "Too Expensive",
     cancel_days    |-> 0]

PipelineDraws ==
    {ChurnedDraw,
     [ChurnedDraw EXCEPT !.plan_name = Standard, !.u = 97],
     [ChurnedDraw EXCEPT !.plan_name = Premium]}

\* records generate_customers is asked for in the loop's specification:
\* 0..MaxGen
MaxGen == 2

\* what the random sources may draw for a record of the loop: a customer who
\* churns (u = 0.05 is below every churn probability) or stays, joining on
\* any day of the range
LoopDraws ==
    {d \in GenDraws : /\ d.age_group = "18-24"
                      /\ d.plan_name = Premium
                      /\ d.logins = -20
                      /\ d.u \in {5, 97}}

\* rows of a table handed to clean_data directly: 1..MaxInputRows
MaxInputRows == 2

\* a plan name the plan table does not hold
Gold == <<"G","o","l","d">>

\* a text that is no date
BadDateText == <<13, 45, 2021>>

\* the rows of such a table: one customer's record with its plan, price,
\* join_date and churn columns varied. join_date is the day 100 (2021-04-11)
\* as a Timestamp or as text; cancellation_date is absent, after join_date,
\* before it, or a text that is no date.
InputRows ==
    LET base == NewRecord(1, [ChurnedDraw EXCEPT !.join_days = 100, !.age = 25])
    IN  {[base EXCEPT !.plan_name = pp[1],
                      !.plan_price = pp[2],
                      !.join_date = jd,
                      !.is_churned = ch[1],
                      !.cancellation_date = ch[2],
                      !.cancellation_reason = ch[3]] :
            pp \in {<<Basic, Some(999)>>, <<str_lower(Premium), None>>,
                    <<Gold, None>>, <<Gold, Some(1999)>>},
            jd \in {Timestamp(100), Str(strftime(100))},
            ch \in {<<0, NaT, None>>,
                    <<1, Timestamp(130), Some("Too Expensive")>>,
                    <<1, Timestamp(70), Some("Too Expensive")>>,
                    <<1, Str(BadDateText), Some("Too Expensive")>>,
                    <<0, Timestamp(70), None>>}}

\* a table of the rows rows[1], ..., rows[m] under a default RangeIndex
InputTable(rows, m) == [k \in 1..m |-> Entry(k - 1, rows[k])]

\* the draws with age drawn from the age group's band (its youngest age)
WithAge(d) == [d EXCEPT !.age = AGE_GROUPS[d.age_group][1]]

\* rows of the table the analysis job loads: 1..MaxAnalysisRows
MaxAnalysisRows == 3

\* rows of the table the plot functions are called on in any order:
\* 1..MaxChartRows
MaxChartRows == 2

\* what the random sources drew for the customers of these tables: one who
\* never logged in and churned after 30 days, three who stayed, one who
\* churned after 90 days; support_tickets and billing_issues_count are equal
\* for all but the last
AnalysisDraws ==
    {[ChurnedDraw EXCEPT !.logins = -20, !.session = 300, !.tickets = 1,
                         !.billing = 1],
     [ChurnedDraw EXCEPT !.plan_name = Premium, !.join_days = 468, !.u = 97],
     [ChurnedDraw EXCEPT !.plan_name = Standard, !.region = "International",
                         !.join_days = 1248, !.logins = 30, !.u = 97],
     [ChurnedDraw EXCEPT !.plan_name = Standard, !.region = "International",
                         !.join_days = 1008, !.logins = 80, !.session = 600,
                         !.tickets = 2, !.billing = 2, !.cancel_days = 60],
     [ChurnedDraw EXCEPT !.join_days = 768, !.logins = 150, !.billing = 1,
                         !.u = 97]}

\* customers_clean.csv holding the records of draws[1], ..., draws[m]
CsvTable(draws, m) ==
    [columns |-> CSV_COLUMNS,
     rows    |-> [k \in 1..m |-> NewRecord(k, WithAge(draws[k]))]]

\* the file whose columns are dropped to try load_data: two customers
SchemaTable ==
    LET draws == CHOOSE f \in [1..2 -> AnalysisDraws] :
                     f[1].logins = -20 /\ f[2].plan_name = Premium
    IN  CsvTable(draws, 2)

-----------------------------------------------------------------------------
(* The state machine *)

NoTable == <<>>

NoRow == <<>>

NoTape == [gen |-> <<>>, dup |-> <<>>, price |-> {}, region |-> {},
           plan |-> {}, date |-> {}]

NoTouched == [dup |-> 0, price |-> 0, region |-> 0, plan |-> 0, date |-> 0]

\* the analysis job not started
NoAnalysis ==
    /\ csv = NoTable
    /\ ties = "input"
    /\ analysis_df = NoTable
    /\ correlations = <<>>
    /\ outputs = <<>>

\* every variable but pc and those a specification's Init sets itself
Idle ==
    /\ NoAnalysis
    /\ n = 0
    /\ df = NoTable
    /\ dirty_len = 0
    /\ touched = NoTouched
    /\ dirty_df = NoTable
    /\ clean_df = NoTable
    /\ clean2_df = NoTable
    /\ run = 1
    /\ tape = NoTape
    /\ first = NoTable
    /\ churn_prob = 0

\* --- calculate_churn_probability applied to a row --------------------------

InitProb ==
    /\ pc = "prob_in"
    /\ row \in ProbRows
    /\ Idle

CalcProb ==
    /\ pc = "prob_in"
    /\ churn_prob' = calculate_churn_probability(row)
    /\ pc' = "prob_out"
    /\ UNCHANGED analysis_vars
    /\ UNCHANGED <<n, df, dirty_len, touched, dirty_df, clean_df, clean2_df,
                   run, tape, first, row>>

NextProb == CalcProb

SpecProb == InitProb /\ [][NextProb]_vars

\* --- one iteration of generate_customers' loop ------------------------------

InitGen ==
    /\ pc = "gen_in"
    /\ row = NoRow
    /\ Idle

GenOne ==
    /\ pc = "gen_in"
    /\ \E d0 \in GenDraws :
         LET d    == WithAge(d0)
             base == BaseRow(1, d)
         IN  \E cd \in RandintSamples(Max(0, CancelEnd(base) - CancelStart(base))) :
               LET dd == d @@ [cancel_days |-> cd]
               IN  /\ row' = NewRecord(1, dd)
                   /\ churn_prob' = calculate_churn_probability(base)
                   /\ pc' = IF NewRecordRaises(1, dd) THEN "raised" ELSE "gen_out"
    /\ UNCHANGED analysis_vars
    /\ UNCHANGED <<n, df, dirty_len, touched, dirty_df, clean_df, clean2_df,
                   run, tape, first>>

NextGen == GenOne

SpecGen == InitGen /\ [][NextGen]_vars

\* --- the loop of generate_customers(n) --------------------------------------
\* The iterations do not read each other's records: df holds the
\* customer_id column of the records made so far, row the whole record of
\* iteration n, the last

InitLoop ==
    /\ NoAnalysis
    /\ pc = "gen_loop"
    /\ n \in 0..MaxGen
    /\ df = NoTable
    /\ row = NoRow
    /\ dirty_len = 0
    /\ touched = NoTouched
    /\ dirty_df = NoTable
    /\ clean_df = NoTable
    /\ clean2_df = NoTable
    /\ run = 1
    /\ tape = NoTape
    /\ first = NoTable
    /\ churn_prob = 0

\* for i in range(1, n + 1): one iteration, records.append(row)
GenLoop ==
    /\ pc = "gen_loop"
    /\ Len(df) < n
    /\ \E d0 \in LoopDraws :
         LET i    == Len(df) + 1
             d    == WithAge(d0)
             base == BaseRow(i, d)
         IN  \E cd \in RandintSamples(Max(0, CancelEnd(base) - CancelStart(base))) :
               LET dd == d @@ [cancel_days |-> cd]
               IN  IF NewRecordRaises(i, dd)
                   THEN pc' = "gen_raised" /\ UNCHANGED <<df, row, churn_prob>>
                   ELSE /\ row' = IF i = n THEN NewRecord(i, dd) ELSE NoRow
                        /\ churn_prob' = IF i = n
                                         THEN calculate_churn_probability(base)
                                         ELSE 0
                        /\ df' = Append(df, Entry(i - 1, [customer_id |-> i]))
                        /\ pc' = "gen_loop"
    /\ UNCHANGED analysis_vars
    /\ UNCHANGED <<n, dirty_len, touched, dirty_df, clean_df, clean2_df, run,
                   tape, first>>

\* df = pd.DataFrame(records); return df
GenReturn ==
    /\ pc = "gen_loop"
    /\ Len(df) = n
    /\ pc' = "gen_done"
    /\ UNCHANGED analysis_vars
    /\ UNCHANGED <<n, df, dirty_len, touched, dirty_df, clean_df, clean2_df,
                   run, tape, first, row, churn_prob>>

NextLoop == GenLoop \/ GenReturn

SpecLoop == InitLoop /\ [][NextLoop]_vars

\* --- the pipeline of main(): generate, dirty, clean -------------------------

Init ==
    /\ NoAnalysis
    /\ pc = "generate"
    /\ n \in NValues
    /\ df = NoTable
    /\ dirty_len = 0
    /\ touched = NoTouched
    /\ dirty_df = NoTable
    /\ clean_df = NoTable
    /\ clean2_df = NoTable
    /\ run = 1
    /\ tape = NoTape
    /\ first = NoTable
    /\ row = NoRow
    /\ churn_prob = 0

\* The seeded sources yield in a second run what they yielded in the first
Replay(x, recorded) == run = 1 \/ x = recorded

Record(field, x) == IF run = 1 THEN [tape EXCEPT ![field] = x] ELSE tape

\* generate_customers: one iteration of the loop for a customer of the window;
\* the iterations past the window leave nothing in the model, and the
\* DataFrame is built after the last of them
GenerateRecord ==
    /\ pc = "generate"
    /\ Len(df) < Min(n, MaxRows)
    /\ \E d0 \in PipelineDraws, last \in BOOLEAN :
         LET i == Len(df) + 1
             d == WithAge(d0)
         IN  /\ Replay(d, IF run = 2 THEN tape.gen[i] ELSE d)
             /\ Replay(last, run = 2 /\ i = Len(tape.gen))
             /\ tape' = Record("gen", Append(tape.gen, d))
             /\ df' = Append(df, Entry(i - 1, NewRecord(i, d)))
             /\ pc' = IF NewRecordRaises(i, d) THEN "generate_raised"
                      ELSE IF last \/ i = Min(n, MaxRows) THEN "add_dirty"
                      ELSE "generate"
    /\ UNCHANGED analysis_vars
    /\ UNCHANGED <<n, dirty_len, touched, dirty_df, clean_df, clean2_df, run,
                   first, row, churn_prob>>

\* add_dirty_data, pass 1: 200 rows sampled without replacement and appended
AddDuplicates ==
    /\ pc = "add_dirty"
    /\ IF choice_raises(n, DUP_SIZE)
       THEN /\ pc' = "add_dirty_raised"
            /\ UNCHANGED <<dirty_df, dirty_len, touched, tape>>
       ELSE \E S \in DuplicatesInWindow(Labels(df), n, DUP_SIZE,
                                         MaxRows - Len(df)) :
              \E dup_indices \in Orderings(S) :
                /\ Replay(dup_indices, tape.dup)
                /\ tape' = Record("dup", dup_indices)
                /\ dirty_df' = AppendDuplicates(df, dup_indices, n)
                /\ dirty_len' = n + DUP_SIZE
                /\ touched' = [touched EXCEPT !.dup = DUP_SIZE]
                /\ pc' = "null_price"
    /\ UNCHANGED analysis_vars
    /\ UNCHANGED <<n, df, clean_df, clean2_df, run, first, row, churn_prob>>

\* The assignment a later pass makes to one row it sampled
Corrupt(field, r) ==
    CASE field = "price"  -> NullPlanPrice(r)
      [] field = "region" -> NullRegion(r)
      [] field = "plan"   -> LowerPlanName(r)
      [] field = "date"   -> ReformatJoinDate(r)

\* The table with the pass applied to the rows an index sample names
\* (df.loc[idx, ...])
CorruptAt(t, idx, field) ==
    [k \in 1..Len(t) |->
        IF t[k].index \in idx
        THEN Entry(t[k].index, Corrupt(field, t[k].row))
        ELSE t[k]]

\* One of the four later passes: a sample of int(len(dirty_df) * pct / 100)
\* labels of dirty_df, and the pass applied to the rows it names
CorruptionPass(at, next, pct, field) ==
    /\ pc = at
    /\ LET size == SampleSize(dirty_len, pct)
       IN  IF choice_raises(dirty_len, size)
           THEN /\ pc' = "add_dirty_raised"
                /\ UNCHANGED <<dirty_df, touched, tape>>
           ELSE \E idx \in ChoiceInWindow(Labels(dirty_df), dirty_len, size) :
                  /\ Replay(idx, tape[field])
                  /\ tape' = Record(field, idx)
                  /\ dirty_df' = CorruptAt(dirty_df, idx, field)
                  /\ touched' = [touched EXCEPT ![field] = size]
                  /\ pc' = next
    /\ UNCHANGED analysis_vars
    /\ UNCHANGED <<n, df, dirty_len, clean_df, clean2_df, run, first, row,
                   churn_prob>>

\* pass 2: 5% of plan_price nulled
NullPrices == CorruptionPass("null_price", "null_region", 5, "price")

\* pass 3: 3% of region nulled
NullRegions == CorruptionPass("null_region", "lower_plan", 3, "region")

\* pass 4: plan_name lower-cased on 10% of the rows
LowerPlanNames == CorruptionPass("lower_plan", "mix_dates", 10, "plan")

\* pass 5: join_date reformatted on 8% of the rows
MixDateFormats == CorruptionPass("mix_dates", "clean", 8, "date")

\* df_clean = clean_data(df_dirty)
Clean ==
    /\ pc = "clean"
    /\ IF clean_data_raises(dirty_df)
       THEN pc' = "clean_raised" /\ UNCHANGED clean_df
       ELSE pc' = "cleaned" /\ clean_df' = clean_data(dirty_df)
    /\ UNCHANGED analysis_vars
    /\ UNCHANGED <<n, df, dirty_len, touched, dirty_df, clean2_df, run, tape,
                   first, row, churn_prob>>

\* clean_data applied to its own output
CleanAgain ==
    /\ pc = "cleaned"
    /\ IF clean_data_raises(clean_df)
       THEN pc' = "clean_raised" /\ UNCHANGED clean2_df
       ELSE pc' = "recleaned" /\ clean2_df' = clean_data(clean_df)
    /\ UNCHANGED analysis_vars
    /\ UNCHANGED <<n, df, dirty_len, touched, dirty_df, clean_df, run, tape,
                   first, row, churn_prob>>

\* The script is run again: both random sources are seeded anew with
\* RANDOM_SEED, so they yield what the tape holds
RunAgain ==
    /\ pc = "cleaned"
    /\ run = 1
    /\ first' = [raw |-> dirty_df, clean |-> clean_df]
    /\ run' = 2
    /\ pc' = "generate"
    /\ df' = NoTable
    /\ dirty_len' = 0
    /\ touched' = NoTouched
    /\ dirty_df' = NoTable
    /\ clean_df' = NoTable
    /\ clean2_df' = NoTable
    /\ UNCHANGED analysis_vars
    /\ UNCHANGED <<n, tape, row, churn_prob>>

Next ==
    \/ GenerateRecord
    \/ AddDuplicates
    \/ NullPrices
    \/ NullRegions
    \/ LowerPlanNames
    \/ MixDateFormats
    \/ Clean

Spec == Init /\ [][Next]_vars

\* clean_data applied to a table of any content
InitClean ==
    /\ NoAnalysis
    /\ pc = "clean"
    /\ \E m \in 1..MaxInputRows :
         \E rows \in [1..m -> InputRows] : dirty_df = InputTable(rows, m)
    /\ dirty_len = Len(dirty_df)
    /\ n = 0
    /\ df = NoTable
    /\ touched = NoTouched
    /\ clean_df = NoTable
    /\ clean2_df = NoTable
    /\ run = 1
    /\ tape = NoTape
    /\ first = NoTable
    /\ row = NoRow
    /\ churn_prob = 0

NextClean == Clean

SpecClean == InitClean /\ [][NextClean]_vars

\* --- churn_analysis.main ----------------------------------------------------

NoOutputs ==
    [error   |-> None,
     loaded  |-> None,
     summary |-> None,
     ranking |-> None,
     top3    |-> None,
     charts  |-> [c \in Range(CHARTS) |-> None],
     report  |-> None]

\* the generator at rest while the analysis job runs
NoGenerator ==
    /\ n = 0
    /\ df = NoTable
    /\ dirty_len = 0
    /\ touched = NoTouched
    /\ dirty_df = NoTable
    /\ clean_df = NoTable
    /\ clean2_df = NoTable
    /\ run = 1
    /\ tape = NoTape
    /\ first = NoTable
    /\ row = NoRow
    /\ churn_prob = 0

\* the file is a table of 1..MaxAnalysisRows customers with every column,
\* or the table of two customers with some of the columns load_data asks
\* for left out
InitAnalysis ==
    /\ pc = "load_data"
    /\ NoGenerator
    /\ \/ /\ ties \in TieOrders
          /\ \E m \in 1..MaxAnalysisRows :
               \E draws \in [1..m -> AnalysisDraws] : csv = CsvTable(draws, m)
       \/ /\ ties = "input"
          /\ \E absent \in SUBSET (Range(required_cols) \cup Range(parse_dates)) :
               /\ absent # {}
               /\ csv = WithoutColumns(SchemaTable, absent)
    /\ analysis_df = NoTable
    /\ correlations = <<>>
    /\ outputs = NoOutputs

\* df = load_data(DATA_PATH)
LoadData ==
    /\ pc = "load_data"
    /\ IF read_csv_raises(csv)
       THEN /\ pc' = "read_csv_raised"
            /\ UNCHANGED <<analysis_df, outputs>>
       ELSE IF missing_cols(csv) # <<>>
       THEN /\ pc' = "load_data_raised"
            /\ outputs' = [outputs EXCEPT !.error = Some(missing_cols(csv))]
            /\ UNCHANGED analysis_df
       ELSE /\ pc' = "print_summary"
            /\ analysis_df' = csv
            /\ outputs' = [outputs EXCEPT !.loaded =
                              Some([rows    |-> Len(csv.rows),
                                    columns |-> Len(csv.columns),
                                    churned |-> ChurnedIn(csv, RowPositions(csv))])]
    /\ UNCHANGED <<csv, ties, correlations>>
    /\ UNCHANGED generator_vars

\* print_summary(df)
PrintSummary ==
    /\ pc = "print_summary"
    /\ outputs' = [outputs EXCEPT !.summary = Some(print_summary(analysis_df))]
    /\ pc' = "correlation_analysis"
    /\ UNCHANGED <<csv, ties, analysis_df, correlations>>
    /\ UNCHANGED generator_vars

\* correlations = correlation_analysis(df)
CorrelationAnalysis ==
    /\ pc = "correlation_analysis"
    /\ correlations' = Correlations(analysis_df)
    /\ outputs' = [outputs EXCEPT
                      !.ranking = Some(PrintedRanking(Correlations(analysis_df), ties)),
                      !.top3    = Some(PrintedTop3(Correlations(analysis_df), ties))]
    /\ pc' = "plots"
    /\ UNCHANGED <<csv, ties, analysis_df>>
    /\ UNCHANGED generator_vars

Drawn(c) == outputs.charts[c] # None

\* the call of the plot function of chart c: df as the function leaves it,
\* and the chart
Plot(c) ==
    /\ pc = "plots"
    /\ ~Drawn(c)
    /\ LET drawn == plot(c, analysis_df, ties)
       IN  /\ analysis_df' = drawn.df
           /\ outputs' = [outputs EXCEPT !.charts[c] = Some(drawn.content)]
    /\ pc' = IF \A d \in Range(CHARTS) \ {c} : Drawn(d)
             THEN "generate_text_report" ELSE "plots"
    /\ UNCHANGED <<csv, ties, correlations>>
    /\ UNCHANGED generator_vars

\* the five plot calls of main, in its order
PlotInTurn ==
    \E i \in 1..Len(CHARTS) :
        /\ \A j \in 1..(i - 1) : Drawn(CHARTS[j])
        /\ Plot(CHARTS[i])

\* the five plot calls in any order
PlotInAnyOrder == \E c \in Range(CHARTS) : Plot(c)

\* generate_text_report(df, correlations)
GenerateTextReport ==
    /\ pc = "generate_text_report"
    /\ outputs' = [outputs EXCEPT !.report =
                      Some(generate_text_report(analysis_df, correlations, ties))]
    /\ pc' = "done"
    /\ UNCHANGED <<csv, ties, analysis_df, correlations>>
    /\ UNCHANGED generator_vars

NextAnalysis ==
    \/ LoadData
    \/ PrintSummary
    \/ CorrelationAnalysis
    \/ PlotInTurn
    \/ GenerateTextReport

SpecAnalysis == InitAnalysis /\ [][NextAnalysis]_vars

\* the file is a table of 1..MaxChartRows customers with every column
InitCharts ==
    /\ pc = "load_data"
    /\ NoGenerator
    /\ ties \in TieOrders
    /\ \E m \in 1..MaxChartRows :
         \E draws \in [1..m -> AnalysisDraws] : csv = CsvTable(draws, m)
    /\ analysis_df = NoTable
    /\ correlations = <<>>
    /\ outputs = NoOutputs

NextCharts ==
    \/ LoadData
    \/ PrintSummary
    \/ CorrelationAnalysis
    \/ PlotInAnyOrder
    \/ GenerateTextReport

SpecCharts == InitCharts /\ [][NextCharts]_vars

\* the pipeline with clean_data applied once more to its output
NextTwice == Next \/ CleanAgain

SpecTwice == Init /\ [][NextTwice]_vars

\* the pipeline run twice from the same seed
NextRuns == Next \/ RunAgain

SpecRuns == Init /\ [][NextRuns]_vars

-----------------------------------------------------------------------------
(* Claims about generated records and the churn probability *)

\* C5: in every record generate_customers produces, is_churned = 0 implies
\* that cancellation_date and cancellation_reason are absent, and
\* is_churned = 1 implies that both are present and that cancellation_date
\* is not before join_date.
C5_ChurnFieldsConsistent ==
    pc = "gen_out" =>
        /\ row.is_churned \in {0, 1}
        /\ row.is_churned = 0 =>
               /\ ~notnull(row.cancellation_date)
               /\ isnull(row.cancellation_reason)
        /\ row.is_churned = 1 =>
               /\ row.cancellation_date.type = "Timestamp"
               /\ ~isnull(row.cancellation_reason)
               /\ row.cancellation_date.v[1] >= row.join_date.v[1]

\* a churned record whose cancellation_date is the earliest the window allows
C5_Witness ==
    /\ pc = "gen_out"
    /\ row.is_churned = 1
    /\ row.join_date = Timestamp(join_date_end)
    /\ row.cancellation_date = Timestamp(join_date_end + 30)

\* the sum of the base rate and of the increments that apply to the row,
\* written from the rules of the claim
C7_Sum(r) ==
    10 + (IF r.avg_monthly_logins < 30 THEN 35 ELSE 0)
       + (IF r.avg_monthly_logins >= 30 /\ r.avg_monthly_logins < 80 THEN 15 ELSE 0)
       + (IF r.plan_name = Premium THEN 8 ELSE 0)
       + (IF r.plan_name = Standard THEN 4 ELSE 0)
       + (IF r.tenure_months < 6 THEN 20 ELSE 0)
       + (IF r.tenure_months >= 6 /\ r.tenure_months < 12 THEN 8 ELSE 0)
       + (IF r.billing_issues_count > 0 THEN 12 ELSE 0)
       + (IF r.age_group = "18-24" \/ r.age_group = "25-34" THEN 6 ELSE 0)
       + (IF r.region = Some("International") THEN 10 ELSE 0)

\* C7: calculate_churn_probability returns, in hundredths, a value p with
\* 10 <= p <= 95, and p is the base 10 plus the applicable increments,
\* clamped to at most 95.
C7_ProbabilityInRange ==
    pc = "prob_out" =>
        /\ 10 <= churn_prob
        /\ churn_prob <= 95
        /\ churn_prob = (IF C7_Sum(row) > 95 THEN 95 ELSE C7_Sum(row))

\* a row whose increments add up to more than 0.95: the clamp acts
C7_Witness ==
    /\ pc = "prob_out"
    /\ C7_Sum(row) > 95
    /\ churn_prob = 95

PlanRank(p) == IF p = Premium THEN 3 ELSE IF p = Standard THEN 2 ELSE 1

\* C8: with the other inputs held fixed, the result never gets lower when
\* avg_monthly_logins is lowered, tenure_months is lowered,
\* billing_issues_count is raised, plan_name moves Basic -> Standard ->
\* Premium, region becomes International, or age_group becomes 18-24 or 25-34.
C8_Monotonic ==
    pc = "prob_out" =>
        /\ \A l \in LoginSamples : l <= row.avg_monthly_logins =>
               calculate_churn_probability([row EXCEPT !.avg_monthly_logins = l])
                   >= churn_prob
        /\ \A t \in 0..MaxTenure : t <= row.tenure_months =>
               calculate_churn_probability([row EXCEPT !.tenure_months = t])
                   >= churn_prob
        /\ \A b \in 0..MaxBilling : b >= row.billing_issues_count =>
               calculate_churn_probability([row EXCEPT !.billing_issues_count = b])
                   >= churn_prob
        /\ \A p \in PlanNames : PlanRank(p) >= PlanRank(row.plan_name) =>
               calculate_churn_probability([row EXCEPT !.plan_name = p])
                   >= churn_prob
        /\ calculate_churn_probability([row EXCEPT !.region = Some("International")])
               >= churn_prob
        /\ \A g \in {"18-24", "25-34"} :
               calculate_churn_probability([row EXCEPT !.age_group = g])
                   >= churn_prob

\* a row that a lower login average moves strictly up, below the clamp
C8_Witness ==
    /\ pc = "prob_out"
    /\ row.avg_monthly_logins = 80
    /\ churn_prob < 95
    /\ calculate_churn_probability([row EXCEPT !.avg_monthly_logins = 29])
           = churn_prob + 35

-----------------------------------------------------------------------------
(* Claims about the pipeline *)

\* the rows of a table in order, without their index labels
Rows(t) == [k \in 1..Len(t) |-> t[k].row]

\* C1: clean_data is idempotent on every table add_dirty_data produces:
\* clean_data(clean_data(T)) has the same rows, in the same number and with
\* the same value in every column, as clean_data(T).
C1_CleanIdempotent ==
    pc = "recleaned" => Rows(clean2_df) = Rows(clean_df)

\* C2: the table clean_data returns holds no two rows equal in every column.
C2_NoDuplicateRows ==
    pc = "cleaned" =>
        \A j, k \in 1..Len(clean_df) :
            j < k => clean_df[j].row # clean_df[k].row

\* the row has a plan of the plan table and that plan's price
PriceMatchesPlan(r) ==
    /\ r.plan_name \in PlanNames
    /\ ~isnull(r.plan_price)
    /\ r.plan_price = Some(CASE r.plan_name = Basic    -> 999
                              [] r.plan_name = Standard -> 1599
                              [] r.plan_name = Premium  -> 2299)

\* C6: in every record generate_customers produces and in every row of
\* clean_data(add_dirty_data(generated table)), plan_name is Basic, Standard
\* or Premium and plan_price is non-null and is the price of that plan
\* (9.99, 15.99, 22.99).
C6_PriceDeterminedByPlan ==
    /\ \A k \in 1..Len(df) : PriceMatchesPlan(df[k].row)
    /\ pc = "cleaned" => \A k \in 1..Len(clean_df) : PriceMatchesPlan(clean_df[k].row)

\* a Premium row whose price was nulled and whose name was lower-cased comes
\* out of clean_data with its name and price restored
C6_Witness ==
    /\ pc = "cleaned"
    /\ \E k \in 1..Len(dirty_df) :
         /\ isnull(dirty_df[k].row.plan_price)
         /\ dirty_df[k].row.plan_name = str_lower(Premium)
         /\ \E j \in 1..Len(clean_df) :
              /\ clean_df[j].index = dirty_df[k].index
              /\ clean_df[j].row.plan_name = Premium
              /\ clean_df[j].row.plan_price = Some(2299)

C10_Reproducible ==
    n = 100 =>
        /\ pc \notin {"generate_raised", "add_dirty_raised", "clean_raised"}
        /\ (run = 2 /\ pc = "cleaned") =>
               /\ dirty_df = first.raw
               /\ clean_df = first.clean

-----------------------------------------------------------------------------
(* Claims about clean_data on a table of any content *)

\* the day a join_date cell names, as a Timestamp or as text
C3_JoinDay(r) ==
    IF r.join_date.type = "Timestamp" THEN r.join_date.v[1]
    ELSE datetime(r.join_date.v[3], r.join_date.v[1], r.join_date.v[2])

\* cancellation_date is present and earlier than join_date
C3_Invalid(r) ==
    /\ r.cancellation_date.type = "Timestamp"
    /\ r.cancellation_date.v[1] < C3_JoinDay(r)

\* the row is non-churned with both cancellation fields absent
C3_Repaired(r) ==
    /\ r.is_churned = 0
    /\ r.cancellation_date = NaT
    /\ r.cancellation_reason = None

\* C3: every input row whose cancellation_date is present and earlier than
\* its join_date is kept in the output (under its index label, or under that
\* of the first row equal to it in every column, of which it is the
\* duplicate step 1 removes) with is_churned = 0 and cancellation_date and
\* cancellation_reason absent; nothing but exact duplicates is dropped; and
\* every output row has cancellation_date absent or >= join_date.
C3_InvalidDatesRepaired ==
    pc = "cleaned" =>
        /\ \A k \in 1..Len(dirty_df) : C3_Invalid(dirty_df[k].row) =>
               \E i \in 1..k :
                  /\ dirty_df[i].row = dirty_df[k].row
                  /\ \E j \in 1..Len(clean_df) :
                        /\ clean_df[j].index = dirty_df[i].index
                        /\ clean_df[j].row.customer_id = dirty_df[k].row.customer_id
                        /\ C3_Repaired(clean_df[j].row)
        /\ Len(clean_df) = Cardinality({dirty_df[k].row : k \in 1..Len(dirty_df)})
        /\ \A j \in 1..Len(clean_df) :
               \/ clean_df[j].row.cancellation_date = NaT
               \/ /\ clean_df[j].row.cancellation_date.type = "Timestamp"
                  /\ clean_df[j].row.join_date.type = "Timestamp"
                  /\ clean_df[j].row.cancellation_date.v[1]
                         >= clean_df[j].row.join_date.v[1]

\* a churned row cancelled before it joined, its join_date given as text,
\* comes out second of two rows, repaired
C3_Witness ==
    /\ pc = "cleaned"
    /\ Len(dirty_df) = 2
    /\ Len(clean_df) = 2
    /\ C3_Invalid(dirty_df[2].row)
    /\ dirty_df[2].row.is_churned = 1
    /\ dirty_df[2].row.join_date.type = "str"
    /\ C3_Repaired(clean_df[2].row)
    /\ ~C3_Repaired(clean_df[1].row)

\* the row's cancellation fields agree with each other and with is_churned
C4_Consistent(r) ==
    /\ (r.cancellation_date # NaT) <=> (r.cancellation_reason # None)
    /\ (r.cancellation_date # NaT) <=> (r.is_churned = 1)

\* C4: when every input row has cancellation_date present iff
\* cancellation_reason is present iff is_churned = 1 (the date possibly a
\* text that is no date, or earlier than join_date), every row clean_data
\* returns has cancellation_date present iff cancellation_reason is present
\* iff is_churned = 1.
C4_CancellationFieldsConsistent ==
    (/\ pc = "cleaned"
     /\ \A k \in 1..Len(dirty_df) : C4_Consistent(dirty_df[k].row))
        => \A j \in 1..Len(clean_df) : C4_Consistent(clean_df[j].row)

\* C12: step 4 of clean_data. A row whose plan_price is null comes out with
\* the table's price of its title-cased plan_name when that name is a key of
\* the plan table, and with a null plan_price, no error raised, when it is
\* not; a row whose plan_price is not null comes out with the price it had,
\* whatever its plan_name.
C12_PriceFill ==
    pc = "cleaned" =>
        \A j \in 1..Len(clean_df) : \E k \in 1..Len(dirty_df) :
            LET before == dirty_df[k].row
                after  == clean_df[j].row
                name   == str_title(before.plan_name)
            IN  /\ dirty_df[k].index = clean_df[j].index
                /\ after.plan_name = name
                /\ after.plan_price =
                       IF ~isnull(before.plan_price) THEN before.plan_price
                       ELSE IF name \in DOMAIN SUBSCRIPTION_PLANS
                       THEN Some(SUBSCRIPTION_PLANS[name])
                       ELSE None

\* two rows with a null price: "premium" comes out at 22.99, "Gold", which
\* the plan table does not hold, comes out with its price still null
C12_Witness ==
    /\ pc = "cleaned"
    /\ Len(dirty_df) = 2
    /\ Len(clean_df) = 2
    /\ dirty_df[1].row.plan_name = str_lower(Premium)
    /\ isnull(dirty_df[1].row.plan_price)
    /\ clean_df[1].row.plan_price = Some(2299)
    /\ dirty_df[2].row.plan_name = Gold
    /\ isnull(dirty_df[2].row.plan_price)
    /\ isnull(clean_df[2].row.plan_price)

-----------------------------------------------------------------------------
(* Claims about the dates of a generated record *)

\* C17: a record of generate_customers has tenure_months = floor(days from
\* join_date to 2024-09-30 / 30); when it is churned its cancellation_date
\* lies in [join_date + 30 days, min(join_date + tenure_months * 30 days,
\* 2024-09-30)] and customer_lifetime_days is the days from join_date to
\* cancellation_date, so between 30 and the days from join_date to the
\* cutoff; when it is not churned customer_lifetime_days is the days from
\* join_date to 2024-09-30.
C17_LifetimeAndWindow ==
    pc = "gen_out" =>
        LET join   == row.join_date.v[1]
            cutoff == datetime(2024, 9, 30)
            ToCut  == cutoff - join
        IN  /\ row.tenure_months * 30 <= ToCut
            /\ ToCut < (row.tenure_months + 1) * 30
            /\ row.is_churned = 1 =>
                  LET cancel == row.cancellation_date.v[1]
                      end    == IF join + row.tenure_months * 30 <= cutoff
                                THEN join + row.tenure_months * 30 ELSE cutoff
                  IN  /\ row.cancellation_date.type = "Timestamp"
                      /\ join + 30 <= cancel
                      /\ cancel <= end
                      /\ row.customer_lifetime_days = cancel - join
                      /\ 30 <= row.customer_lifetime_days
                      /\ row.customer_lifetime_days <= ToCut
            /\ row.is_churned = 0 => row.customer_lifetime_days = ToCut

\* a churned record cancelled on the last day of its window, which is
\* before the cutoff: joined 2021-01-01, 1368 days before it, tenure 45
C17_Witness ==
    /\ pc = "gen_out"
    /\ row.is_churned = 1
    /\ row.join_date.v[1] = 0
    /\ row.tenure_months = 45
    /\ row.customer_lifetime_days = 1350
    /\ row.cancellation_date.v[1] < datetime(2024, 9, 30)

-----------------------------------------------------------------------------
(* Claims about the analysis job *)

\* the required columns the file does not hold
C11_Absent ==
    {c \in {"customer_id", "is_churned", "plan_name", "plan_price", "region",
            "age_group", "tenure_months", "avg_monthly_logins",
            "avg_session_minutes", "support_tickets", "billing_issues_count"} :
        \A i \in 1..Len(csv.columns) : csv.columns[i] # c}

\* read_csv found its two date columns and returned a table
C11_Loaded ==
    \A c \in {"join_date", "cancellation_date"} :
        \E i \in 1..Len(csv.columns) : csv.columns[i] = c

\* no stage after load_data has run
C11_NothingRan ==
    /\ analysis_df = NoTable
    /\ correlations = <<>>
    /\ outputs.loaded = None
    /\ outputs.summary = None
    /\ outputs.ranking = None
    /\ outputs.top3 = None
    /\ \A c \in DOMAIN outputs.charts : outputs.charts[c] = None
    /\ outputs.report = None

\* C11: load_data fails fast. On a loaded table with at least one required
\* column absent it raises an error naming exactly the absent required
\* columns, and no statistics, chart or report stage runs; it returns the
\* table only when none is absent.
C11_LoadFailsFast ==
    (C11_Loaded /\ pc # "load_data") =>
        /\ C11_Absent # {} =>
              /\ pc = "load_data_raised"
              /\ outputs.error # None
              /\ Range(outputs.error[1]) = C11_Absent
              /\ Len(outputs.error[1]) = Cardinality(C11_Absent)
              /\ C11_NothingRan
        /\ C11_Absent = {} =>
              /\ pc # "load_data_raised"
              /\ outputs.error = None
              /\ analysis_df # NoTable
              /\ pc = "print_summary" => analysis_df = csv

\* the file lacks is_churned and region and nothing else: the error names
\* the two
C11_Witness ==
    /\ pc = "load_data_raised"
    /\ C11_Absent = {"is_churned", "region"}
    /\ outputs.error = Some(<<"is_churned", "region">>)

\* |a| < |b| and |a| = |b| for two correlations that are defined
C13_AbsLess(a, b) == a.num * b.den < b.num * a.den

C13_AbsSame(a, b) == a.num * b.den = b.num * a.den

\* the place of a feature in the input feature list
C13_Place(feature) ==
    CHOOSE i \in 1..Len(correlations) : correlations[i].feature = feature

C13_R(feature) == correlations[C13_Place(feature)].r

\* feature f ranks before feature g: greater magnitude, or the same
\* magnitude and an earlier place in the input list
C13_RanksBefore(f, g) ==
    \/ C13_AbsLess(C13_R(g), C13_R(f))
    \/ /\ C13_AbsSame(C13_R(f), C13_R(g))
       /\ C13_Place(f) < C13_Place(g)

\* listed is the three features that rank before all others, in rank order
C13_IsTop3(listed) ==
    /\ Len(listed) = 3
    /\ \A k \in 1..3 : listed[k].rank = k
    /\ \A k \in 1..2 : C13_RanksBefore(listed[k].feature, listed[k + 1].feature)
    /\ \A i \in 1..Len(correlations) :
          (\A k \in 1..3 : listed[k].feature # correlations[i].feature)
              => C13_RanksBefore(listed[3].feature, correlations[i].feature)

\* C13: correlation_analysis returns the signed correlations of the seven
\* features in input order, and (all seven being defined) the top 3 it
\* prints and the top 3 of the report are the three features of greatest
\* absolute correlation in descending magnitude, features of equal
\* magnitude in the order of the input feature list.
C13_CorrelationRanking ==
    (/\ correlations # <<>>
     /\ \A i \in 1..Len(correlations) : ~correlations[i].r.nan)
        => /\ [i \in 1..Len(correlations) |-> correlations[i].feature]
                  = <<"plan_price", "tenure_months", "avg_monthly_logins",
                      "avg_session_minutes", "support_tickets",
                      "billing_issues_count", "customer_lifetime_days">>
           /\ C13_IsTop3(outputs.top3[1])
           /\ outputs.report # None => C13_IsTop3(outputs.report[1].top3)

\* the correlation of a listed feature is defined
C14_Defined(feature) ==
    \A i \in 1..Len(correlations) :
        correlations[i].feature = feature => ~correlations[i].r.nan

\* C14: a feature whose correlation with is_churned is undefined (NaN) is
\* not ranked: it is in no line of the printed ranking, of the printed top 3
\* or of the report's top 3, which give a feature a place and a direction.
C14_UndefinedNotRanked ==
    /\ outputs.ranking # None =>
          \A k \in 1..Len(outputs.ranking[1]) :
              C14_Defined(outputs.ranking[1][k].feature)
    /\ outputs.top3 # None =>
          \A k \in 1..Len(outputs.top3[1]) :
              C14_Defined(outputs.top3[1][k].feature)
    /\ outputs.report # None =>
          \A k \in 1..Len(outputs.report[1].top3) :
              C14_Defined(outputs.report[1].top3[k].feature)

\* C15: the analysis job only reads the table. From load_data's return to
\* the end of main, df has the columns and the cells it was loaded with.
C15_TableOnlyRead ==
    analysis_df # NoTable =>
        /\ analysis_df.columns = csv.columns
        /\ Len(analysis_df.rows) = Len(csv.rows)
        /\ \A k \in 1..Len(csv.rows) :
              \A c \in Range(csv.columns) :
                  analysis_df.rows[k][c] = csv.rows[k][c]

\* the first i plot calls of main in main's order, from the loaded table:
\* what each leaves df as, and its chart
RECURSIVE C16_MainRun(_)
C16_MainRun(i) ==
    IF i = 0 THEN <<>>
    ELSE CHOOSE sofar \in
             {Append(earlier, plot(CHARTS[i],
                                   IF i = 1 THEN csv ELSE earlier[i - 1].df,
                                   ties)) :
                 earlier \in {C16_MainRun(i - 1)}} : TRUE

\* C16: the charts are order-insensitive. In whatever order the five plot
\* functions are called on the loaded table, each chart holds the aggregates
\* it holds when main calls them in its own order, and so does the report
\* written after them.
C16_ChartsOrderInsensitive ==
    pc \in {"plots", "generate_text_report", "done"} =>
        \A main \in {C16_MainRun(Len(CHARTS))} :
            /\ \A i \in 1..Len(CHARTS) :
                  outputs.charts[CHARTS[i]] # None =>
                      outputs.charts[CHARTS[i]] = Some(main[i].content)
            /\ outputs.report # None =>
                  outputs.report
                      = Some(generate_text_report(main[Len(CHARTS)].df,
                                                  correlations, ties))

\* the report written after plot_churn_by_engagement was called before
\* plot_top3_factors: login_bin stands before login_tier in df
C16_Witness ==
    /\ pc = "done"
    /\ Len(csv.rows) = 2
    /\ \E i, j \in 1..Len(analysis_df.columns) :
          /\ analysis_df.columns[i] = "login_bin"
          /\ analysis_df.columns[j] = "login_tier"
          /\ i < j
    /\ \E k \in 1..2 : analysis_df.rows[k].login_tier = None

\* the rows a tier chart counts
C19_Counted(groups) == SumSeq([i \in 1..Len(groups) |-> groups[i].count])

\* C19: the tiers of plot_top3_factors partition the table. Every row has
\* one login tier and one tenure tier, and the populations of the tiers of
\* each chart add up to the row count.
C19_TiersPartition ==
    outputs.charts["top3_churn_factors"] # None =>
        /\ \A k \in 1..Len(analysis_df.rows) :
              /\ analysis_df.rows[k].login_tier # None
              /\ analysis_df.rows[k].tenure_tier # None
        /\ C19_Counted(outputs.charts["top3_churn_factors"][1].login_churn)
               = Len(analysis_df.rows)
        /\ C19_Counted(outputs.charts["top3_churn_factors"][1].tenure_churn)
               = Len(analysis_df.rows)

=============================================================================
